---- MODULE Spec2Model ----
(***************************************************************************)
(* Boundary conditions of pyLBM (pyLBM/boundary.py).                       *)
(*                                                                         *)
(* Boundary.__init__ compiles a domain (per-velocity flag and distance     *)
(* arrays) and a dictionary of boundary conditions into one instance of a  *)
(* Boundary_method subclass per method class used; every instance owns the *)
(* tables istore, ilabel, distance, then derives iload (set_iload), feq    *)
(* (prepare_rhs) and rhs (set_rhs), and update(f) rewrites the entries of  *)
(* the distribution array f that istore names.                             *)
(*                                                                         *)
(* Arrays are modelled column by column: a 2-d index array of numpy such   *)
(* as istore is the sequence of its columns, a column being the tuple      *)
(* <<velocity, i, j, l>>.  Python indices (velocities, families, cells)    *)
(* keep their 0-based values; only positions in sequences are 1-based.     *)
(* The distribution array f is the nested array f[k][i][j][l].  Floating   *)
(* point numbers are modelled by exact rationals <<num, den>>.             *)
(***************************************************************************)
EXTENDS Integers, Sequences, FiniteSets, TLC

(***************************************************************************)
(* Bounds of the model.                                                    *)
(***************************************************************************)
\* number of cells of the array along x, y and z (halo included)
NX == 4
NY == 3
NZ == 3
\* how often set_iload may be called on one instance
MaxIload == 2
\* how many update calls a run may contain
MaxUpdates == 2
\* how often prepare_rhs may be called on one instance
MaxPrepare == 1
\* calls of prepare_rhs per instance when the prescribed values change
MaxRecompute == 2

(***************************************************************************)
(* Rational arithmetic (numpy float arithmetic, taken exactly).            *)
(***************************************************************************)
Abs(a) == IF a < 0 THEN -a ELSE a

RECURSIVE Gcd(_, _)
Gcd(a, b) == IF b = 0 THEN a ELSE Gcd(b, a % b)

\* the fraction n/d in lowest terms, with a positive denominator
Rat(n, d) ==
    IF d = 1 THEN <<n, 1>>
    ELSE LET g == Gcd(Abs(n), Abs(d))
             sg == IF d < 0 THEN -1 ELSE 1
         IN  <<(sg * n) \div g, (sg * d) \div g>>

RInt(n) == <<n, 1>>
RAdd(a, b) == Rat(a[1] * b[2] + b[1] * a[2], a[2] * b[2])
RNeg(a) == <<-a[1], a[2]>>
RSub(a, b) == RAdd(a, RNeg(b))
RMul(a, b) == Rat(a[1] * b[1], a[2] * b[2])
RDiv(a, b) == Rat(a[1] * b[2], a[2] * b[1])
RLess(a, b) == a[1] * b[2] < b[1] * a[2]
RZero == RInt(0)
ROne == RInt(1)
RHalf == Rat(1, 2)

(***************************************************************************)
(* Sequence helpers.                                                       *)
(***************************************************************************)
Range(s) == {s[i] : i \in DOMAIN s}

\* a sequence of n copies of x (x*np.ones(n), np.zeros(n))
Fill(n, x) == [i \in 1..n |-> x]

(***************************************************************************)
(* The stencil (collaborator: pyLBM/stencil.py).  Three dimensions, five   *)
(* unique velocities, two families (schemes) that share velocities.        *)
(***************************************************************************)
Dim == 3

\* stencil.unique_velocities: number and vector of every unique velocity
UniqueVelocities ==
    <<[num |-> 0,  v |-> <<0, 0, 0>>],
      [num |-> 1,  v |-> <<1, 0, 0>>],
      [num |-> 2,  v |-> <<-1, 0, 0>>],
      [num |-> 20, v |-> <<1, 1, -1>>],
      [num |-> 25, v |-> <<-1, -1, 1>>]>>

\* stencil.unvtot
Unvtot == Len(UniqueVelocities)

\* unique_velocities[ku] for a 0-based ku
UVel(ku) == UniqueVelocities[ku + 1]

\* stencil.unum2index[num]
Unum2index(num) == CHOOSE ku \in 0..(Unvtot - 1) : UVel(ku).num = num

\* Velocity.get_symmetric(): the unique velocity of opposite vector
GetSymmetricVel(vel) ==
    CHOOSE w \in Range(UniqueVelocities) : w.v = [a \in 1..Dim |-> -vel.v[a]]

\* stencil.num[k]: the velocity numbers of family k
StencilNum == <<(<<1, 2, 20, 25>>), (<<0, 25, 20>>)>>
Families == 0..(Len(StencilNum) - 1)
NumOf(k) == StencilNum[k + 1]

\* stencil.nv_ptr: nv_ptr[k] is the index of the first velocity of family k
RECURSIVE NvPtr(_)
NvPtr(k) == IF k = 0 THEN 0 ELSE NvPtr(k - 1) + Len(NumOf(k - 1))

\* stencil.nv_ptr[-1]: the number of velocities of all families
Nv == NvPtr(Len(StencilNum))
Velocities == 0..(Nv - 1)

\* the family of the velocity of index k
FamilyOf(k) == CHOOSE fam \in Families : NvPtr(fam) <= k /\ k < NvPtr(fam + 1)

\* the velocity number of the velocity of index k
NumAt(k) == NumOf(FamilyOf(k))[k - NvPtr(FamilyOf(k)) + 1]

\* stencil.get_all_velocities(): the vector of the velocity of each index
GetAllVelocities == [k \in Velocities |-> UVel(Unum2index(NumAt(k))).v]
AllVelocities(k) == GetAllVelocities[k]

\* stencil.get_symmetric(): for each index k the index, in the family of k,
\* of the velocity opposite to the velocity of index k
GetSymmetric ==
    [k \in Velocities |->
        CHOOSE ks \in Velocities :
            /\ FamilyOf(ks) = FamilyOf(k)
            /\ AllVelocities(ks) = [a \in 1..Dim |-> -AllVelocities(k)[a]]]
Symmetric(k) == GetSymmetric[k]

(***************************************************************************)
(* The domain (collaborator: pyLBM/domain.py).                             *)
(***************************************************************************)
\* the value of domain.flag at a point whose velocity meets no boundary
Valin == 999

Cells == (0..(NX - 1)) \X (0..(NY - 1)) \X (0..(NZ - 1))

\* the inner points: every point that is not in the halo
Inner == (1..(NX - 2)) \X (1..(NY - 2)) \X (1..(NZ - 2))

VAdd(x, v) == [a \in 1..Dim |-> x[a] + v[a]]
VScale(c, v) == [a \in 1..Dim |-> c * v[a]]

\* the points of the array in C order (the order of np.where)
RECURSIVE CellsFrom(_)
CellsFrom(n) ==
    IF n = NX * NY * NZ THEN <<>>
    ELSE << <<n \div (NY * NZ), (n \div NZ) % NY, n % NZ>> >> \o CellsFrom(n + 1)
CellsInOrder == CellsFrom(0)

\* an inner point x meets a boundary along the unique velocity ku
Hits(ku, x) == x \in Inner /\ VAdd(x, UVel(ku).v) \notin Inner

\* domain.flag and domain.distance built from a pair of patterns: a
\* pattern gives a label (a distance) to each unique velocity that is not
\* zero; the first pattern is used at the points of odd first coordinate,
\* the second at the points of even first coordinate
PatternAt(pats, ku, x) == pats[2 - (x[1] % 2)][ku]
FlagOf(labpats) ==
    [ku \in 0..(Unvtot - 1) |->
        [x \in Cells |-> IF Hits(ku, x) THEN PatternAt(labpats, ku, x) ELSE Valin]]
DistanceOf(distpats) ==
    [ku \in 0..(Unvtot - 1) |->
        [x \in Cells |->
            IF Hits(ku, x) THEN PatternAt(distpats, ku, x) ELSE RInt(Valin)]]

(***************************************************************************)
(* Boundary_Velocity: the points and distances of a label and a velocity.  *)
(***************************************************************************)
\* the positions, in C order, of the points x with flag[num][x] = label
\* (np.where(domain.flag[num] == self.label))
WhereFlag(dom, num, label) ==
    SelectSeq(CellsInOrder, LAMBDA x : dom.flag[num][x] = label)

\* the index of the unique velocity whose flags Boundary_Velocity reads:
\* the symmetric of unique_velocities[ksym]
LocatorNum(ksym) == Unum2index(GetSymmetricVel(UVel(ksym)).num)

BoundaryVelocity(dom, label, ksym) ==
    LET v == GetSymmetricVel(UVel(ksym))
        num == LocatorNum(ksym)
        ind == WhereFlag(dom, num, label)
    IN  [label |-> label,
         indices |-> [c \in 1..Len(ind) |-> VAdd(ind[c], v.v)],
         distance |-> [c \in 1..Len(ind) |-> dom.distance[num][ind[c]]]]

(***************************************************************************)
(* Boundary.__init__: the tables of every method class, in the order in    *)
(* which the classes are met (an OrderedDict), then one instance a class.  *)
(***************************************************************************)
\* the position of the class cls in the ordered dictionary acc, 0 if absent
KeyPos(acc, cls) ==
    IF \E p \in 1..Len(acc) : acc[p].cls = cls
    THEN CHOOSE p \in 1..Len(acc) : acc[p].cls = cls
    ELSE 0

\* the index of the velocity of position inumk (0-based) of family k
\* (inumk + stencil.nv_ptr[k])
VelocityIndexMutant(k, inumk) == inumk
VelocityIndex(k, inumk) == inumk + NvPtr(k)

\* np.concatenate of the tables of a class and the tables of one record
ConcatMutant(old, new) == new \o old
Concat(old, new) == old \o new

\* the body of the loop over the velocities of a family (lines 104-117)
AddRecord(acc, dom, label, k, cls, inumk) ==
    LET bv == BoundaryVelocity(dom, label, Unum2index(NumOf(k)[inumk + 1]))
        n == Len(bv.indices)
        istore_tmp == [c \in 1..n |-> <<VelocityIndex(k, inumk)>> \o bv.indices[c]]
        ilabel_tmp == Fill(n, label)
        p == KeyPos(acc, cls)
    IN  IF n = 0 THEN acc
        ELSE IF p = 0
             THEN Append(acc, [cls |-> cls, istore |-> istore_tmp,
                               ilabel |-> ilabel_tmp, distance |-> bv.distance])
             ELSE [acc EXCEPT ![p] =
                      [cls |-> cls,
                       istore |-> Concat(acc[p].istore, istore_tmp),
                       ilabel |-> Concat(acc[p].ilabel, ilabel_tmp),
                       distance |-> Concat(acc[p].distance, bv.distance)]]

\* for inumk, numk in enumerate(stencil.num[k])
RECURSIVE AddFamily(_, _, _, _, _, _)
AddFamily(acc, dom, label, k, cls, inumk) ==
    IF inumk >= Len(NumOf(k)) THEN acc
    ELSE AddFamily(AddRecord(acc, dom, label, k, cls, inumk),
                   dom, label, k, cls, inumk + 1)

\* for k, v in methods.items()
RECURSIVE AddItems(_, _, _, _, _)
AddItems(acc, dom, label, items, j) ==
    IF j > Len(items) THEN acc
    ELSE AddItems(AddFamily(acc, dom, label, items[j][1], items[j][2], 0),
                  dom, label, items, j + 1)

\* label -1 is periodic, label -2 an interface: no boundary method
Reserved(label) == label = -1 \/ label = -2

\* for label in self.domain.list_of_labels()
RECURSIVE AddLabels(_, _, _, _)
AddLabels(acc, dom, dic, i) ==
    IF i > Len(dom.labels) THEN acc
    ELSE LET label == dom.labels[i]
         IN  AddLabels(IF Reserved(label) THEN acc
                       ELSE AddItems(acc, dom, label, dic[label].method, 1),
                       dom, dic, i + 1)

\* value_bc[label] = dico_bound[label].get('value', None)
ValueBc(dom, dic) ==
    [label \in {l \in Range(dom.labels) : ~Reserved(l)} |-> dic[label].value]

\* np.unique(ilabel): the labels of ilabel, sorted
RECURSIVE SortedSet(_)
SortedSet(S) ==
    IF S = {} THEN <<>>
    ELSE LET m == CHOOSE a \in S : \A b \in S : a <= b
         IN  <<m>> \o SortedSet(S \ {m})
Unique(ilabel) == SortedSet(Range(ilabel))

(***************************************************************************)
(* self.value_bc is a plain dict, filled in the order of np.unique and     *)
(* read by prepare_rhs in the order in which the dict iterates.  That      *)
(* order depends on the interpreter: the order of the hash table (CPython  *)
(* 2.6, 2.7, and 3 up to 3.5) or the order of insertion (CPython 3.6 on).  *)
(***************************************************************************)
Builds == {"hash", "insertion"}

\* hash(key) of an integer
Hash(key) == IF key = -1 THEN -2 ELSE key

\* the bits of the unsigned word that holds a hash
WordBits == 64

\* the smallest table of a dict (PyDict_MINSIZE)
MinSize == 8

\* h >> 5n for a signed h
RECURSIVE Shr5(_, _)
Shr5(h, n) == IF n = 0 THEN h ELSE Shr5(h \div 32, n - 1)

\* (perturb >> 5n) modulo size, where perturb is the hash as an unsigned word
Perturb(h, n, size) ==
    LET e == WordBits - 5 * n
    IN  IF h >= 0 THEN Shr5(h, n) % size
        ELSE IF e < 0 THEN 0
        ELSE ((IF e < 30 /\ 2^e < size THEN 2^e ELSE 0) + Shr5(h, n)) % size

\* the free slot the probe sequence of hash h reaches from slot i
RECURSIVE ProbeSlot(_, _, _, _)
ProbeSlot(table, h, i, n) ==
    IF table[i + 1] = <<>> THEN i
    ELSE ProbeSlot(table, h,
                   (5 * i + Perturb(h, n, Len(table)) + 1) % Len(table), n + 1)

\* the table with one more key, in the slot its hash leads to
InsertClean(table, key) ==
    [table EXCEPT ![ProbeSlot(table, Hash(key), Hash(key) % Len(table), 0) + 1]
                      = <<key>>]

\* the keys of a table in the order of its slots
RECURSIVE TableKeys(_, _)
TableKeys(table, i) ==
    IF i > Len(table) THEN <<>> ELSE table[i] \o TableKeys(table, i + 1)

\* the size of the table after a resize for used keys
RECURSIVE NewSize(_, _)
NewSize(size, minused) ==
    IF size > minused THEN size ELSE NewSize(2 * size, minused)

RECURSIVE InsertAll(_, _, _)
InsertAll(table, keys, i) ==
    IF i > Len(keys) THEN table
    ELSE InsertAll(InsertClean(table, keys[i]), keys, i + 1)

\* the table grows when it is two thirds full, to more than 4 times the
\* keys it holds (2 times, above 50000 keys), and its keys are inserted
\* again in the order of their slots
Resized(table) ==
    LET used == Len(TableKeys(table, 1))
    IN  IF used * 3 >= Len(table) * 2
        THEN InsertAll(Fill(NewSize(MinSize,
                                    (IF used > 50000 THEN 2 ELSE 4) * used),
                            <<>>),
                       TableKeys(table, 1), 1)
        ELSE table

\* the table of a dict whose keys were set in the order keys[i], ...
RECURSIVE DictTable(_, _, _)
DictTable(table, keys, i) ==
    IF i > Len(keys) THEN table
    ELSE DictTable(Resized(InsertClean(table, keys[i])), keys, i + 1)

\* the order in which a dict iterates, its keys set in the order keys
DictOrder(keys, build) ==
    IF build = "insertion" THEN keys
    ELSE TableKeys(DictTable(Fill(MinSize, <<>>), keys, 1), 1)

\* the value of s (np.empty) before set_iload has filled it
Uninit == "uninit"

\* Boundary_method.__init__ (and the subclasses' __init__); value_bc holds
\* the items of self.value_bc in the order of self.value_bc.items()
NewMethod(cls, istore, ilabel, distance, value_bc, build) ==
    LET keys == DictOrder(Unique(ilabel), build)
    IN  [cls |-> cls,
         istore |-> istore,
         ilabel |-> ilabel,
         distance |-> distance,
         feq |-> [c \in 1..Len(istore) |-> [k \in Velocities |-> RZero]],
         rhs |-> Fill(Len(istore), RZero),
         iload |-> <<>>,
         s |-> Fill(Len(istore), Uninit),
         value_bc |-> [p \in 1..Len(keys) |-> <<keys[p], value_bc[keys[p]]>>]]

\* self.methods of Boundary(domain, dico)
BoundaryMethods(dom, dic, build) ==
    LET acc == AddLabels(<<>>, dom, dic, 1)
    IN  [p \in 1..Len(acc) |->
            NewMethod(acc[p].cls, acc[p].istore, acc[p].ilabel,
                      acc[p].distance, ValueBc(dom, dic), build)]

(***************************************************************************)
(* The method classes.                                                     *)
(***************************************************************************)
Classes ==
    {"bounce_back", "Bouzidi_bounce_back", "anti_bounce_back",
     "Bouzidi_anti_bounce_back", "Neumann", "Neumann_x", "Neumann_y",
     "Neumann_z"}

\* the classes whose set_iload is Bouzidi_bounce_back.set_iload
Bouzidi == {"Bouzidi_bounce_back", "Bouzidi_anti_bounce_back"}

\* row 0 of a column of istore (the velocity) and rows 1.. (the point)
ColK(col) == col[1]
ColX(col) == SubSeq(col, 2, Dim + 1)

\* x with the coordinate of the 0-based axis a moved by d (indices[a] += d)
OffsetAxis(x, a, d) == [x EXCEPT ![a + 1] = @ + d]

(***************************************************************************)
(* set_iload                                                               *)
(***************************************************************************)
\* bounce_back.set_iload, inherited by anti_bounce_back (lines 231-236)
BounceBackLoad(col) ==
    <<Symmetric(ColK(col))>> \o VAdd(ColX(col), AllVelocities(ColK(col)))

\* Neumann.set_iload (lines 380-384)
NeumannLoad(col) ==
    <<ColK(col)>> \o VAdd(ColX(col), AllVelocities(ColK(col)))

\* Neumann_x.set_iload (lines 404-409): indices[0] += v[k].T[0]
NeumannXLoad(col) ==
    <<ColK(col)>> \o OffsetAxis(ColX(col), 0, AllVelocities(ColK(col))[0 + 1])

\* Neumann_y.set_iload (lines 426-431): indices[1] += v[k].T[1]
NeumannYLoad(col) ==
    <<ColK(col)>> \o OffsetAxis(ColX(col), 1, AllVelocities(ColK(col))[1 + 1])

\* Neumann_z.set_iload (lines 448-453): indices[1] += v[k].T[2]
NeumannZLoad(col) ==
    <<ColK(col)>> \o OffsetAxis(ColX(col), 1, AllVelocities(ColK(col))[2 + 1])

\* Bouzidi_bounce_back.set_iload (lines 270-293), one column:
\* mask = self.distance < .5
BouzidiMaskMutant(d) == RLess(RHalf, d)
BouzidiMask(d) == RLess(d, RHalf)

BouzidiLoad1(col) ==
    <<Symmetric(ColK(col))>> \o VAdd(ColX(col), AllVelocities(ColK(col)))

BouzidiLoad2(col, d) ==
    IF BouzidiMask(d)
    THEN <<Symmetric(ColK(col))>>
             \o VAdd(ColX(col), VScale(2, AllVelocities(ColK(col))))
    ELSE <<ColK(col)>> \o VAdd(ColX(col), AllVelocities(ColK(col)))

BouzidiS(d) ==
    IF BouzidiMask(d) THEN RMul(RInt(2), d) ELSE RDiv(RHalf, d)

\* the tables that set_iload of the class of m appends to self.iload
LoadTables(m) ==
    LET n == Len(m.istore)
        Tab(F(_)) == [c \in 1..n |-> F(m.istore[c])]
    IN  CASE m.cls \in {"bounce_back", "anti_bounce_back"} ->
                <<Tab(BounceBackLoad)>>
          [] m.cls \in Bouzidi ->
                <<[c \in 1..n |-> BouzidiLoad1(m.istore[c])],
                  [c \in 1..n |-> BouzidiLoad2(m.istore[c], m.distance[c])]>>
          [] m.cls = "Neumann" -> <<Tab(NeumannLoad)>>
          [] m.cls = "Neumann_x" -> <<Tab(NeumannXLoad)>>
          [] m.cls = "Neumann_y" -> <<Tab(NeumannYLoad)>>
          [] m.cls = "Neumann_z" -> <<Tab(NeumannZLoad)>>

\* self.iload after one more call of set_iload: the tables are appended
IloadAfterMutant(m) == LoadTables(m)
IloadAfter(m) == m.iload \o LoadTables(m)

\* set_iload of the class of m
SetIloadOf(m) ==
    [m EXCEPT !.iload = IloadAfter(m),
              !.s = IF m.cls \in Bouzidi
                    THEN [c \in 1..Len(m.istore) |-> BouzidiS(m.distance[c])]
                    ELSE @]

(***************************************************************************)
(* set_rhs                                                                 *)
(***************************************************************************)
\* bounce_back.set_rhs and Bouzidi_bounce_back.set_rhs (lines 238-241,
\* 295-298): feq[k] - feq[ksym]
RhsDiffMutant(feqcol, k) == RAdd(feqcol[k], feqcol[Symmetric(k)])
RhsDiff(feqcol, k) == RSub(feqcol[k], feqcol[Symmetric(k)])

\* anti_bounce_back.set_rhs and Bouzidi_anti_bounce_back.set_rhs (lines
\* 323-326, 351-354): feq[k] + feq[ksym]
RhsSumMutant(feqcol, k) == RSub(feqcol[k], feqcol[Symmetric(k)])
RhsSum(feqcol, k) == RAdd(feqcol[k], feqcol[Symmetric(k)])

\* set_rhs of the class of m; Neumann.set_rhs does nothing
SetRhsOf(m) ==
    [m EXCEPT !.rhs =
        CASE m.cls \in {"bounce_back", "Bouzidi_bounce_back"} ->
                [c \in 1..Len(m.istore) |-> RhsDiff(m.feq[c], ColK(m.istore[c]))]
          [] m.cls \in {"anti_bounce_back", "Bouzidi_anti_bounce_back"} ->
                [c \in 1..Len(m.istore) |-> RhsSum(m.feq[c], ColK(m.istore[c]))]
          [] OTHER -> @]

(***************************************************************************)
(* update                                                                  *)
(***************************************************************************)
\* how many tables of self.iload update reads (iload[0], iload[1])
LoadsRead(m) == IF m.cls \in Bouzidi THEN 2 ELSE 1

\* the length of the array f along row r of an index (row 0: velocities)
Shape(r) == <<Nv, NX, NY, NZ>>[r + 1]

\* numpy indexing: an index n of -size..-1 names the entry size + n, and an
\* index outside -size..size-1 raises IndexError
InBounds(col) ==
    \A r \in 0..Dim : -Shape(r) <= col[r + 1] /\ col[r + 1] < Shape(r)
Wrap(col) ==
    [r \in 1..(Dim + 1) |-> IF col[r] < 0 THEN Shape(r - 1) + col[r] ELSE col[r]]

\* the indices (k, x, y, z) of the entries of the array f
Entries == {<<k>> \o x : k \in Velocities, x \in Cells}

\* the entry of the array f at the index e = (k, x, y, z), 0 <= e[r] < Shape
FAt(f, e) == f[e[1]][e[2]][e[3]][e[4]]

\* the array whose entry at each index e is val[e]
FieldOf(val) ==
    [k \in 0..(Shape(0) - 1) |->
        [x \in 0..(Shape(1) - 1) |->
            [y \in 0..(Shape(2) - 1) |->
                [z \in 0..(Shape(3) - 1) |-> val[<<k, x, y, z>>]]]]]

\* f[tuple(index)] for one column of an index table
FRead(f, col) == FAt(f, Wrap(col))

\* update raises IndexError: self.iload is too short, or an index is out of
\* the bounds of f
UpdateRaises(m) ==
    \/ Len(m.iload) < LoadsRead(m)
    \/ \E t \in 1..LoadsRead(m) : \E c \in 1..Len(m.istore) :
           ~InBounds(m.iload[t][c])
    \/ \E c \in 1..Len(m.istore) : ~InBounds(m.istore[c])

\* the value update computes for column c from the array f
\* (lines 244, 301, 329, 357, 387)
UpdateValue(m, f, c) ==
    CASE m.cls = "bounce_back" -> RAdd(FRead(f, m.iload[1][c]), m.rhs[c])
      [] m.cls = "Bouzidi_bounce_back" ->
            RAdd(RAdd(RMul(m.s[c], FRead(f, m.iload[1][c])),
                      RMul(RSub(ROne, m.s[c]), FRead(f, m.iload[2][c]))),
                 m.rhs[c])
      [] m.cls = "anti_bounce_back" ->
            RAdd(RNeg(FRead(f, m.iload[1][c])), m.rhs[c])
      [] m.cls = "Bouzidi_anti_bounce_back" ->
            RAdd(RAdd(RMul(RNeg(m.s[c]), FRead(f, m.iload[1][c])),
                      RMul(RSub(m.s[c], ROne), FRead(f, m.iload[2][c]))),
                 m.rhs[c])
      [] OTHER -> FRead(f, m.iload[1][c])

\* the entries of f that update writes: f[tuple(self.istore)] = ...
Stored(m) == {Wrap(m.istore[c]) : c \in 1..Len(m.istore)}

\* the right-hand side of update, computed from the array f before any
\* entry is stored: one value for each column
UpdateValues(m, f) == [c \in 1..Len(m.istore) |-> UpdateValue(m, f, c)]

\* the array after the values of the columns c.. of istore have been
\* stored into acc, in order: an entry named by several columns keeps the
\* value of the last one
RECURSIVE StoreFrom(_, _, _, _)
StoreFrom(m, values, acc, c) ==
    IF c > Len(m.istore) THEN acc
    ELSE LET e == Wrap(m.istore[c])
         IN  StoreFrom(m, values,
                 [acc EXCEPT ![e[1]][e[2]][e[3]][e[4]] = values[c]],
                 c + 1)

\* update negating in place the entries it loads
UpdateFieldNegating(m, f) ==
    LET dest == Stored(m)
        loaded == {Wrap(m.iload[1][c]) : c \in 1..Len(m.istore)}
        stored == StoreFrom(m, UpdateValues(m, f), f, 1)
    IN  FieldOf([e \in Entries |->
                    IF e \in dest THEN FAt(stored, e)
                    ELSE IF e \in loaded THEN RNeg(FAt(f, e)) ELSE FAt(f, e)])

\* update storing into every velocity of the points of istore
UpdateFieldMutant(m, f) ==
    LET last(e) ==
            CHOOSE c \in 1..Len(m.istore) :
                /\ ColX(Wrap(m.istore[c])) = ColX(e)
                /\ \A c2 \in (c + 1)..Len(m.istore) :
                       ColX(Wrap(m.istore[c2])) # ColX(e)
    IN  FieldOf([e \in Entries |->
                    IF \E c \in 1..Len(m.istore) :
                           ColX(Wrap(m.istore[c])) = ColX(e)
                    THEN UpdateValue(m, f, last(e)) ELSE FAt(f, e)])

\* f after update(f): the right-hand side is computed from f as it was
\* before the call, then stored: f[tuple(self.istore)] = ...
UpdateField(m, f) == StoreFrom(m, UpdateValues(m, f), f, 1)

(***************************************************************************)
(* prepare_rhs.  The prescribed values, the scheme and the coordinates are *)
(* collaborators: a value is None, a function, or a tuple whose first item *)
(* is a function and whose second item is a tuple of extra arguments.      *)
(***************************************************************************)
VNone == [kind |-> "none"]
VFunc(g) == [kind |-> "func", g |-> g]
\* a tuple of length len: value[0] = g, and value[1] = extra when len >= 2
VTuple(len, g, extra) == [kind |-> "tuple", len |-> len, g |-> g, extra |-> extra]

\* simulation.domain.dx
Dx == 1

\* simulation.domain.coords_halo[i]: an array of Shape(i + 1) coordinates,
\* the one of position n, for n in 0..Shape(i + 1) - 1, being n*dx
CoordsHalo(i, n) == RInt(n * Dx)

\* coords_halo[i][n] for an index n of istore (line 181): numpy indexing,
\* an index n of -size..-1 names the position size + n
CoordsAt(i, n) == CoordsHalo(i, IF n < 0 THEN Shape(i + 1) + n ELSE n)

\* coords_halo[i][self.istore[i + 1, indices]] raises IndexError when a
\* column of the label has an index outside -size..size-1 (line 181)
CoordsRaise(m, key) ==
    \E c \in 1..Len(m.istore) :
        /\ m.ilabel[c] = key
        /\ \E i \in 1..Dim :
              m.istore[c][i + 1] < -Shape(i) \/ m.istore[c][i + 1] >= Shape(i)

\* the moment a prescribed function sets, from the arguments it is given:
\* function 1 sets 1, function 2 the first coordinate, function 3 its
\* first extra argument (the argument that follows the coordinates)
ValueFn(g, args) ==
    CASE g = 1 -> ROne
      [] g = 2 -> args[1]
      [] g = 3 -> args[Dim + 1]

\* simulation.scheme.equilibrium then m2f: the distribution of velocity k
SchemeEq(rho, k) == RMul(rho, RInt(k + 1))

\* the coordinates of the wall point of column c (lines 178-186):
\* x = coords_halo[i][istore[i + 1]] + (1 - distance)*v[k, i]*dx
WallCoords(m, c) ==
    LET k == ColK(m.istore[c])
        s == RSub(ROne, m.distance[c])
    IN  [i \in 1..Dim |->
            RAdd(CoordsAt(i - 1, m.istore[c][i + 1]),
                 RMul(RMul(s, RInt(AllVelocities(k)[i])), RInt(Dx)))]

\* the columns of feq of one label after the value has been evaluated
\* (lines 188-206): self.feq[:, indices[0]] = f.swaparray.reshape(...)
FeqWith(m, key, g, extra) ==
    [c \in 1..Len(m.istore) |->
        IF m.ilabel[c] = key
        THEN LET rho == ValueFn(g, WallCoords(m, c) \o extra)
             IN  [k \in Velocities |-> SchemeEq(rho, k)]
        ELSE m.feq[c]]

\* a tuple whose length is not 2 is logged as an error (lines 198-200)
LogsError(value) == value.kind = "tuple" /\ value.len # 2

\* args = coords + value[1] raises IndexError on a tuple shorter than 2
RaisesIndexError(value) == value.kind = "tuple" /\ value.len < 2

\* the loop of prepare_rhs from position p of self.value_bc.items() on:
\* the instance, the labels whose value was logged as an error, and
\* whether an exception ended the call
RECURSIVE PrepareFrom(_, _, _)
PrepareFrom(m, p, logs) ==
    IF p > Len(m.value_bc) THEN [m |-> m, logs |-> logs, raised |-> FALSE]
    ELSE LET key == m.value_bc[p][1]
             value == m.value_bc[p][2]
             logs2 == IF LogsError(value) THEN logs \cup {key} ELSE logs
         IN  IF value.kind = "none" THEN PrepareFrom(m, p + 1, logs)
             ELSE IF CoordsRaise(m, key)
                  THEN [m |-> m, logs |-> logs, raised |-> TRUE]
             ELSE IF RaisesIndexError(value)
                  THEN [m |-> m, logs |-> logs2, raised |-> TRUE]
                  ELSE PrepareFrom(
                          [m EXCEPT !.feq =
                              FeqWith(m, key, value.g,
                                      IF value.kind = "tuple"
                                      THEN value.extra ELSE <<>>)],
                          p + 1, logs2)

PrepareRhsOf(m) == PrepareFrom(m, 1, {})

(***************************************************************************)
(* The state.                                                              *)
(***************************************************************************)
VARIABLES
    domain,     \* the domain: labels, flag, distance
    dico,       \* dico['boundary_conditions']: label -> method and value
    methods,    \* Boundary.methods, the list of instances
    f,          \* the distribution array that update rewrites
    logged,     \* the <<instance, label>> pairs logged as errors
    raised,     \* an exception has ended the run
    ncompile,   \* how many times Boundary(domain, dico) has been built
    ran,        \* for every instance: the calls of prepare_rhs, and
                \* whether set_rhs has run since the last of them
    nupd,       \* the number of update calls so far
    last,       \* the last operation and the instance it ran on
    prev        \* methods and f as they were before the last operation

vars == <<domain, dico, methods, f, logged, raised, ncompile, ran, nupd,
          last, prev>>

\* the rank of a point in C order
CellNumber(x) == (x[1] * NY + x[2]) * NZ + x[3]

\* the array f before any update: every entry holds another value, and the
\* entry of velocity 0 at the last inner point holds 0
F0 ==
    FieldOf([e \in Entries |->
                RInt(Nv * (CellNumber(ColX(e))
                           - CellNumber(<<NX - 2, NY - 2, NZ - 2>>))
                     + ColK(e))])

(***************************************************************************)
(* The domains and dictionaries the runs start from.                       *)
(***************************************************************************)
\* a domain from a pair of label patterns and a pair of distance patterns;
\* list_of_labels() is sorted
DomainOf(labpats, distpats) ==
    [labels |-> SortedSet(Range(labpats[1]) \cup Range(labpats[2])),
     flag |-> FlagOf(labpats),
     distance |-> DistanceOf(distpats)]

\* a dictionary of boundary conditions for the labels 0 and 1
DicoOf(items0, value0, items1, value1) ==
    (0 :> [method |-> items0, value |-> value0])
        @@ (1 :> [method |-> items1, value |-> value1])

\* the same class for both families
Uniform(cls) == << <<0, cls>>, <<1, cls>> >>

\* the other label of 0 and 1, the next label of -2, -1
Other(label) == CASE label = 0 -> 1 [] label = 1 -> 0 [] label = -1 -> -2 [] label = -2 -> -1
Swapped(labpat) == [ku \in 1..4 |-> Other(labpat[ku])]
Reversed(pat) == [ku \in 1..4 |-> pat[5 - ku]]

LabPats ==
    {<< <<0, 0, 0, 0>>, <<0, 0, 0, 0>> >>,
     << <<0, 1, 0, 1>>, <<1, 0, 1, 0>> >>,
     << <<1, 0, -1, 0>>, <<1, 0, -1, 0>> >>}
MixedDist == <<Rat(3, 4), Rat(1, 4), Rat(1, 2), RZero>>
DistPats ==
    {<< <<Rat(1, 4), Rat(1, 4), Rat(1, 4), Rat(1, 4)>>,
        <<Rat(1, 4), Rat(1, 4), Rat(1, 4), Rat(1, 4)>> >>,
     <<MixedDist, Reversed(MixedDist)>>}
ValuePairs ==
    {<<VNone, VNone>>,
     <<VFunc(1), VNone>>,
     <<VFunc(2), VTuple(2, 3, <<RInt(5)>>)>>,
     <<VTuple(3, 3, <<RInt(5)>>), VFunc(1)>>,
     <<VTuple(1, 3, <<>>), VFunc(1)>>}

Init ==
    /\ domain \in {DomainOf(lp, dp) : lp \in LabPats, dp \in DistPats}
    /\ dico \in {DicoOf(Uniform(c), vp[1], Uniform(c), vp[2]) :
                    c \in Classes, vp \in ValuePairs}
    /\ methods = <<>>
    /\ f = F0
    /\ logged = {}
    /\ raised = FALSE
    /\ ncompile = 0
    /\ ran = <<>>
    /\ nupd = 0
    /\ last = [op |-> "none", i |-> 0]
    /\ prev = [methods |-> <<>>, f |-> F0]

(***************************************************************************)
(* The operations.                                                         *)
(***************************************************************************)
Snapshot == [methods |-> methods, f |-> f]

\* how many times set_iload has run on the instance m
IloadCalls(m) == Len(m.iload) \div LoadsRead(m)

\* Boundary(domain, dico)
Construct ==
    /\ ~raised
    /\ ncompile < 2
    /\ last.op \in {"none", "construct"}
    /\ \E build \in Builds : methods' = BoundaryMethods(domain, dico, build)
    /\ ran' = [i \in 1..Len(methods') |-> [prepare |-> 0, rhs |-> FALSE]]
    /\ ncompile' = ncompile + 1
    /\ last' = [op |-> "construct", i |-> 0]
    /\ prev' = Snapshot
    /\ UNCHANGED <<domain, dico, f, logged, raised, nupd>>

\* methods[i].set_iload()
SetIload(i) ==
    /\ ~raised
    /\ i \in 1..Len(methods)
    /\ IloadCalls(methods[i]) < MaxIload
    /\ methods' = [methods EXCEPT ![i] = SetIloadOf(methods[i])]
    /\ last' = [op |-> "set_iload", i |-> i]
    /\ prev' = Snapshot
    /\ UNCHANGED <<domain, dico, f, logged, raised, ncompile, ran, nupd>>

\* methods[i].prepare_rhs(simulation), called at most n times on an instance
PrepareRhsUpTo(i, n) ==
    /\ ~raised
    /\ i \in 1..Len(methods)
    /\ ran[i].prepare < n
    /\ LET r == PrepareRhsOf(methods[i])
       IN  /\ methods' = [methods EXCEPT ![i] = r.m]
           /\ logged' = logged \cup {<<i, key>> : key \in r.logs}
           /\ raised' = r.raised
    /\ ran' = [ran EXCEPT ![i] = [prepare |-> @.prepare + 1, rhs |-> FALSE]]
    /\ last' = [op |-> "prepare_rhs", i |-> i]
    /\ prev' = Snapshot
    /\ UNCHANGED <<domain, dico, f, ncompile, nupd>>

\* methods[i].prepare_rhs(simulation)
PrepareRhs(i) == PrepareRhsUpTo(i, MaxPrepare)

\* methods[i].set_rhs()
SetRhs(i) ==
    /\ ~raised
    /\ i \in 1..Len(methods)
    /\ methods' = [methods EXCEPT ![i] = SetRhsOf(methods[i])]
    /\ ran' = [ran EXCEPT ![i].rhs = TRUE]
    /\ last' = [op |-> "set_rhs", i |-> i]
    /\ prev' = Snapshot
    /\ UNCHANGED <<domain, dico, f, logged, raised, ncompile, nupd>>

\* methods[i].update(f); an IndexError leaves f as it was
Update(i) ==
    /\ ~raised
    /\ i \in 1..Len(methods)
    /\ nupd < MaxUpdates
    /\ IF UpdateRaises(methods[i])
       THEN raised' = TRUE /\ f' = f
       ELSE raised' = FALSE /\ f' = UpdateField(methods[i], f)
    /\ nupd' = nupd + 1
    /\ last' = [op |-> "update", i |-> i]
    /\ prev' = Snapshot
    /\ UNCHANGED <<domain, dico, methods, logged, ncompile, ran>>

Next ==
    \/ Construct
    \/ \E i \in 1..Len(methods) : SetIload(i)
    \/ \E i \in 1..Len(methods) : PrepareRhs(i)
    \/ \E i \in 1..Len(methods) : SetRhs(i)
    \/ \E i \in 1..Len(methods) : Update(i)

Spec == Init /\ [][Next]_vars

(***************************************************************************)
(* Compilation alone, from every flag pattern of the labels -2, -1, 0, 1   *)
(* and dictionaries that give the families to different classes, in        *)
(* different orders.                                                       *)
(***************************************************************************)
CompileDicos ==
    {DicoOf(<< <<0, "bounce_back">>, <<1, "Neumann">> >>, VNone,
            << <<0, "Neumann">>, <<1, "bounce_back">> >>, VNone),
     DicoOf(<< <<1, "bounce_back">>, <<0, "bounce_back">> >>, VFunc(1),
            << <<0, "Bouzidi_bounce_back">> >>, VNone),
     DicoOf(<< <<0, "anti_bounce_back">> >>, VNone,
            << <<1, "anti_bounce_back">>, <<0, "Neumann_x">> >>, VFunc(2)),
     DicoOf(Uniform("Bouzidi_anti_bounce_back"), VFunc(1),
            Uniform("Bouzidi_anti_bounce_back"), VNone)}

InitCompile ==
    /\ domain \in {DomainOf(<<lp, IF swap THEN Swapped(lp) ELSE lp>>,
                            <<MixedDist, Reversed(MixedDist)>>) :
                      lp \in [1..4 -> {-2, -1, 0, 1}], swap \in BOOLEAN}
    /\ dico \in CompileDicos
    /\ methods = <<>>
    /\ f = F0
    /\ logged = {}
    /\ raised = FALSE
    /\ ncompile = 0
    /\ ran = <<>>
    /\ nupd = 0
    /\ last = [op |-> "none", i |-> 0]
    /\ prev = [methods |-> <<>>, f |-> F0]

NextCompile == Construct

SpecCompile == InitCompile /\ [][NextCompile]_vars

(***************************************************************************)
(* Two instances of different classes, set up in the order of the life     *)
(* cycle (set_iload, prepare_rhs, set_rhs on every instance, then the      *)
(* updates in any order).                                                  *)
(***************************************************************************)
InitDriver ==
    /\ domain \in {DomainOf(lp, dp) :
                      lp \in {<< <<0, 1, 0, 1>>, <<0, 1, 0, 1>> >>,
                              << <<0, 0, 1, 1>>, <<1, 0, 1, 0>> >>},
                      dp \in DistPats}
    /\ dico \in {DicoOf(Uniform(c0), VFunc(2), Uniform(c1), VFunc(1)) :
                    c0 \in Classes, c1 \in Classes}
    /\ methods = <<>>
    /\ f = F0
    /\ logged = {}
    /\ raised = FALSE
    /\ ncompile = 0
    /\ ran = <<>>
    /\ nupd = 0
    /\ last = [op |-> "none", i |-> 0]
    /\ prev = [methods |-> <<>>, f |-> F0]

\* the instance is ready for update
Ready(i) ==
    /\ IloadCalls(methods[i]) >= 1
    /\ ran[i].prepare >= 1
    /\ ran[i].rhs

NextDriver ==
    \/ Construct
    \/ \E i \in 1..Len(methods) :
          /\ IloadCalls(methods[i]) = 0
          /\ \A j \in 1..(i - 1) : Ready(j)
          /\ SetIload(i)
    \/ \E i \in 1..Len(methods) :
          /\ IloadCalls(methods[i]) = 1 /\ ran[i].prepare = 0
          /\ PrepareRhs(i)
    \/ \E i \in 1..Len(methods) :
          /\ ran[i].prepare = 1 /\ ~ran[i].rhs
          /\ SetRhs(i)
    \/ \E i \in 1..Len(methods) :
          /\ \A j \in 1..Len(methods) : Ready(j)
          /\ Update(i)

SpecDriver == InitDriver /\ [][NextDriver]_vars

(***************************************************************************)
(* Time-dependent boundary data: one instance that holds the labels 0 and  *)
(* 1 is set up, and then its prescribed values change between the steps.   *)
(* A change is followed by prepare_rhs and set_rhs before the next update. *)
(***************************************************************************)
\* the values a label's entry of value_bc can change to: a function whose
\* result has changed is the entry of another function
NewValues ==
    {VNone, VFunc(1), VFunc(2),
     VTuple(2, 3, <<RInt(5)>>), VTuple(2, 3, <<RInt(7)>>)}

InitForcing ==
    /\ domain \in {DomainOf(lp, dp) :
                      lp \in {<< <<0, 1, 0, 1>>, <<1, 0, 1, 0>> >>},
                      dp \in DistPats}
    /\ dico \in {DicoOf(Uniform(c), vp[1], Uniform(c), vp[2]) :
                    c \in Classes,
                    vp \in {<<VFunc(1), VNone>>,
                            <<VFunc(2), VTuple(2, 3, <<RInt(5)>>)>>}}
    /\ methods = <<>>
    /\ f = F0
    /\ logged = {}
    /\ raised = FALSE
    /\ ncompile = 0
    /\ ran = <<>>
    /\ nupd = 0
    /\ last = [op |-> "none", i |-> 0]
    /\ prev = [methods |-> <<>>, f |-> F0]

\* methods[i].value_bc[key] = value, by the code that owns the boundary data
SetValueBc(i) ==
    /\ ~raised
    /\ i \in 1..Len(methods)
    /\ \E p \in 1..Len(methods[i].value_bc), value \in NewValues :
          /\ value # methods[i].value_bc[p][2]
          /\ methods' = [methods EXCEPT
                            ![i].value_bc[p] = <<methods[i].value_bc[p][1], value>>]
    /\ last' = [op |-> "set_value", i |-> i]
    /\ prev' = Snapshot
    /\ UNCHANGED <<domain, dico, f, logged, raised, ncompile, ran, nupd>>

\* the values of instance i have changed and prepare_rhs has not run since
Pending(i) == last.op = "set_value" /\ last.i = i

NextForcing ==
    \/ Construct
    \/ \E i \in 1..Len(methods) :
          /\ IloadCalls(methods[i]) = 0
          /\ SetIload(i)
    \/ \E i \in 1..Len(methods) :
          /\ Ready(i)
          /\ ran[i].prepare < MaxRecompute
          /\ SetValueBc(i)
    \/ \E i \in 1..Len(methods) :
          /\ IloadCalls(methods[i]) = 1
          /\ ran[i].prepare = 0 \/ Pending(i)
          /\ PrepareRhsUpTo(i, MaxRecompute)
    \/ \E i \in 1..Len(methods) :
          /\ ran[i].prepare >= 1 /\ ~ran[i].rhs
          /\ SetRhs(i)
    \/ \E i \in 1..Len(methods) :
          /\ Ready(i)
          /\ ~Pending(i)
          /\ Update(i)

SpecForcing == InitForcing /\ [][NextForcing]_vars

(***************************************************************************)
(* Properties.                                                             *)
(***************************************************************************)
\* the instance the last operation ran on
LastM == methods[last.i]

\* the last operation was op, on an instance of class cls that is ready,
\* and it ended without an exception
Did(op, cls) ==
    /\ last.op = op
    /\ ~raised
    /\ LastM.cls = cls
    /\ Ready(last.i)

\* the prescribed value of a label in an instance
ValueOfLabel(m, label) ==
    LET p == CHOOSE q \in 1..Len(m.value_bc) : m.value_bc[q][1] = label
    IN  m.value_bc[p][2]

\* the entry (k*, x + n v[k]) of a column (k, x)
Reflected(col, n) ==
    <<Symmetric(ColK(col))>>
        \o VAdd(ColX(col), VScale(n, AllVelocities(ColK(col))))
\* the entry (k, x + v[k]) of a column (k, x)
Ahead(col) == <<ColK(col)>> \o VAdd(ColX(col), AllVelocities(ColK(col)))

\* C1: once set_iload, prepare_rhs and set_rhs have run on a bounce_back
\* instance, update(f) sets f[k, x] of every column (k, x) to the value that
\* f[k*, x + v[k]] had before the call plus feq[k] - feq[k*]; the columns
\* of a label whose value is None have feq = 0 and are pure reflections.
C1_BounceBackUpdate ==
    Did("update", "bounce_back") =>
        \A c \in 1..Len(LastM.istore) :
            LET col == LastM.istore[c]
                k == ColK(col)
                feq == LastM.feq[c]
            IN  /\ FAt(f, col) = RAdd(FAt(prev.f, Reflected(col, 1)),
                                 RSub(feq[k], feq[Symmetric(k)]))
                /\ ValueOfLabel(LastM, LastM.ilabel[c]).kind = "none" =>
                       /\ \A k2 \in Velocities : feq[k2] = RZero
                       /\ FAt(f, col) = FAt(prev.f, Reflected(col, 1))

\* a bounce_back update has written a column whose feq[k] - feq[k*] is not
\* 0 and a column of a label without value
C1_Witness ==
    /\ Did("update", "bounce_back")
    /\ \E c \in 1..Len(LastM.istore) :
          /\ LastM.rhs[c] # RZero
          /\ FAt(f, LastM.istore[c]) # FAt(prev.f, LastM.istore[c])
    /\ \E c \in 1..Len(LastM.istore) :
          /\ ValueOfLabel(LastM, LastM.ilabel[c]).kind = "none"
          /\ FAt(f, LastM.istore[c]) # FAt(prev.f, LastM.istore[c])

\* C2: the load table of an anti_bounce_back instance is that of
\* bounce-back, (k*, x + v[k]), and update(f) sets f[k, x] to
\* -f[k*, x + v[k]] + feq[k] + feq[k*]; where feq[k] = 2, feq[k*] = 1 and
\* the loaded value is 0, bounce-back writes 1 and anti-bounce-back 3.
C2_AntiBounceBackUpdate ==
    /\ Did("update", "anti_bounce_back") =>
          \A c \in 1..Len(LastM.istore) :
              LET col == LastM.istore[c]
                  k == ColK(col)
                  feq == LastM.feq[c]
              IN  /\ LastM.iload[1][c] = Reflected(col, 1)
                  /\ FAt(f, col) = RAdd(RNeg(FAt(prev.f, Reflected(col, 1))),
                                   RAdd(feq[k], feq[Symmetric(k)]))
    /\ \A cls \in {"bounce_back", "anti_bounce_back"} :
          Did("update", cls) =>
              \A c \in 1..Len(LastM.istore) :
                  LET col == LastM.istore[c]
                      k == ColK(col)
                      feq == LastM.feq[c]
                  IN  (/\ feq[k] = RInt(2)
                       /\ feq[Symmetric(k)] = RInt(1)
                       /\ FAt(prev.f, Reflected(col, 1)) = RZero)
                      => FAt(f, col) = RInt(IF cls = "bounce_back" THEN 1 ELSE 3)

\* an anti_bounce_back update has written 3 into a column with feq[k] = 2,
\* feq[k*] = 1 that loaded 0
C2_Witness ==
    /\ Did("update", "anti_bounce_back")
    /\ \E c \in 1..Len(LastM.istore) :
          LET col == LastM.istore[c]
          IN  /\ LastM.feq[c][ColK(col)] = RInt(2)
              /\ LastM.feq[c][Symmetric(ColK(col))] = RInt(1)
              /\ FAt(prev.f, LastM.iload[1][c]) = RZero
              /\ FAt(f, col) = RInt(3)

\* C3: set_iload of a Bouzidi_bounce_back instance gives every column
\* either (distance < 1/2) the loads (k*, x + v[k]), (k*, x + 2 v[k]) and
\* s = 2 distance, or (otherwise) the loads (k*, x + v[k]), (k, x + v[k])
\* and s = 0.5/distance; update(f) sets f[k, x] to
\* s f[load1] + (1 - s) f[load2] + feq[k] - feq[k*].
C3_BouzidiUpdate ==
    /\ \A i \in 1..Len(methods) :
          (methods[i].cls = "Bouzidi_bounce_back" /\ IloadCalls(methods[i]) >= 1)
          => \A c \in 1..Len(methods[i].istore) :
                 LET col == methods[i].istore[c]
                     d == methods[i].distance[c]
                 IN  /\ methods[i].iload[1][c] = Reflected(col, 1)
                     /\ RLess(d, Rat(1, 2)) =>
                            /\ methods[i].iload[2][c] = Reflected(col, 2)
                            /\ methods[i].s[c] = RMul(RInt(2), d)
                     /\ ~RLess(d, Rat(1, 2)) =>
                            /\ methods[i].iload[2][c] = Ahead(col)
                            /\ methods[i].s[c] = RDiv(Rat(1, 2), d)
    /\ Did("update", "Bouzidi_bounce_back") =>
          \A c \in 1..Len(LastM.istore) :
              LET col == LastM.istore[c]
                  k == ColK(col)
                  feq == LastM.feq[c]
                  s == LastM.s[c]
              IN  FAt(f, col) =
                      RAdd(RAdd(RMul(s, FAt(prev.f, LastM.iload[1][c])),
                                RMul(RSub(ROne, s), FAt(prev.f, LastM.iload[2][c]))),
                           RSub(feq[k], feq[Symmetric(k)]))

\* a Bouzidi_bounce_back update has written a column of either branch
C3_Witness ==
    /\ Did("update", "Bouzidi_bounce_back")
    /\ \E c1, c2 \in 1..Len(LastM.istore) :
          /\ RLess(LastM.distance[c1], Rat(1, 2))
          /\ ~RLess(LastM.distance[c2], Rat(1, 2))
          /\ LastM.s[c1] \notin {RZero, ROne}
          /\ LastM.s[c2] \notin {RZero, ROne}
          /\ LastM.rhs[c1] # RZero
          /\ FAt(f, LastM.istore[c1]) # FAt(prev.f, LastM.istore[c1])
          /\ FAt(f, LastM.istore[c2]) # FAt(prev.f, LastM.istore[c2])

\* the axis an axis-restricted Neumann class is named after
NamedAxis(cls) ==
    CASE cls = "Neumann_x" -> 0 [] cls = "Neumann_y" -> 1 [] cls = "Neumann_z" -> 2

\* C4: set_iload of Neumann_x, Neumann_y and Neumann_z gives every column
\* (k, x) the load (k, x'), x' being x with the coordinate of the named axis
\* (x: axis 0, y: axis 1, z: axis 2) moved by the component of v[k] on that
\* axis, the other coordinates unchanged.
C4_NeumannAxisLoad ==
    \A i \in 1..Len(methods) :
        (/\ methods[i].cls \in {"Neumann_x", "Neumann_y", "Neumann_z"}
         /\ IloadCalls(methods[i]) >= 1)
        => \A c \in 1..Len(methods[i].istore) :
               LET col == methods[i].istore[c]
                   a == NamedAxis(methods[i].cls)
                   v == AllVelocities(ColK(col))
               IN  methods[i].iload[1][c] =
                       <<ColK(col)>> \o [ColX(col) EXCEPT ![a + 1] = @ + v[a + 1]]

\* C5: after Boundary(domain, dico) no two columns of the istore tables of
\* the instances name the same (velocity, point).
C5_UniqueTargets ==
    ncompile >= 1 =>
        \A i, j \in 1..Len(methods) :
            \A c \in 1..Len(methods[i].istore), c2 \in 1..Len(methods[j].istore) :
                <<i, c>> # <<j, c2>> => methods[i].istore[c] # methods[j].istore[c2]

\* several instances have been built, with columns of both families at the
\* same point and columns of the same velocity under two labels
C5_Witness ==
    /\ ncompile >= 1
    /\ Len(methods) >= 2
    /\ \E i, j \in 1..Len(methods) :
          \E c \in 1..Len(methods[i].istore), c2 \in 1..Len(methods[j].istore) :
              /\ i # j
              /\ ColX(methods[i].istore[c]) = ColX(methods[j].istore[c2])
              /\ FamilyOf(ColK(methods[i].istore[c]))
                     # FamilyOf(ColK(methods[j].istore[c2]))
    /\ \E i, j \in 1..Len(methods) :
          \E c \in 1..Len(methods[i].istore), c2 \in 1..Len(methods[j].istore) :
              /\ ColK(methods[i].istore[c]) = ColK(methods[j].istore[c2])
              /\ methods[i].ilabel[c] # methods[j].ilabel[c2]

\* the entries update stores into, and the entries it loads
Dest(m) == {m.istore[c] : c \in 1..Len(m.istore)}
Loads(m) ==
    {Wrap(m.iload[t][c]) : t \in 1..LoadsRead(m), c \in 1..Len(m.istore)}

\* the updates of the instances i and j give the same f in either order
Commute(i, j) ==
    UpdateField(methods[j], UpdateField(methods[i], f))
        = UpdateField(methods[i], UpdateField(methods[j], f))

\* C6 (as claimed): when the istore columns of the instances are disjoint,
\* the updates of any two instances commute.
C6_UpdatesCommute ==
    \A i, j \in 1..Len(methods) :
        (/\ i # j
         /\ ~UpdateRaises(methods[i]) /\ ~UpdateRaises(methods[j])
         /\ Dest(methods[i]) \cap Dest(methods[j]) = {})
        => Commute(i, j)

\* C6 (amended): the updates of two instances commute when their istore
\* columns are disjoint and neither loads an entry the other stores into.
C6_UpdatesCommuteLoadsApart ==
    \A i, j \in 1..Len(methods) :
        (/\ i # j
         /\ ~UpdateRaises(methods[i]) /\ ~UpdateRaises(methods[j])
         /\ Dest(methods[i]) \cap Dest(methods[j]) = {}
         /\ Loads(methods[i]) \cap Dest(methods[j]) = {}
         /\ Loads(methods[j]) \cap Dest(methods[i]) = {})
        => Commute(i, j)

\* two instances, one of a Bouzidi class and one of an axis-restricted
\* Neumann class, that load nothing the other stores into have both been
\* updated, and each update has changed f
C6_Witness ==
    /\ last.op = "update" /\ ~raised /\ nupd = 2
    /\ \E i, j \in 1..Len(methods) :
          /\ i # j
          /\ j = last.i
          /\ methods[i].cls \in Bouzidi
          /\ methods[j].cls \in {"Neumann_x", "Neumann_y"}
          /\ Dest(methods[i]) \cap Dest(methods[j]) = {}
          /\ Loads(methods[i]) \cap Dest(methods[j]) = {}
          /\ Loads(methods[j]) \cap Dest(methods[i]) = {}
          /\ prev.f = UpdateField(methods[i], F0)
          /\ prev.f # F0
          /\ f # prev.f

\* a value that is a tuple whose length is not 2
Malformed(value) == value.kind = "tuple" /\ value.len # 2

\* C7: prepare_rhs reports a tuple whose length is not 2 as an error, leaves
\* the feq columns of its label at zero, and gives the columns of the other
\* labels the values they would have without the malformed label.
C7_MalformedTuple ==
    last.op = "prepare_rhs" =>
        \A p \in 1..Len(LastM.value_bc) :
            LET key == LastM.value_bc[p][1]
                before == prev.methods[last.i]
                without ==
                    PrepareRhsOf([before EXCEPT !.value_bc[p] = <<key, VNone>>]).m
            IN  Malformed(LastM.value_bc[p][2]) =>
                    /\ <<last.i, key>> \in logged
                    /\ \A c \in 1..Len(LastM.istore) :
                           IF LastM.ilabel[c] = key
                           THEN \A k \in Velocities : LastM.feq[c][k] = RZero
                           ELSE LastM.feq[c] = without.feq[c]

\* C8 (as claimed): a second call of set_iload leaves the instance with the
\* load tables of the first call, as many and the same.
C8_SetIloadTwiceSame ==
    (last.op = "set_iload" /\ IloadCalls(LastM) >= 2) =>
        LastM.iload = prev.methods[last.i].iload

\* C8 (amended): every call of set_iload appends its tables (one, two for
\* the Bouzidi classes) to iload; the tables of a later call equal those of
\* the first call, and the tables that were there, s and every other table
\* of the instance stay as they were.
C8_SetIloadAppends ==
    last.op = "set_iload" =>
        LET old == prev.methods[last.i]
            n == LoadsRead(LastM)
        IN  /\ Len(LastM.iload) = Len(old.iload) + n
            /\ \A t \in 1..Len(old.iload) : LastM.iload[t] = old.iload[t]
            /\ \A t \in 1..n : LastM.iload[Len(old.iload) + t] = LastM.iload[t]
            /\ Len(old.iload) > 0 => LastM.s = old.s
            /\ [LastM EXCEPT !.iload = <<>>, !.s = <<>>]
                   = [old EXCEPT !.iload = <<>>, !.s = <<>>]
            /\ \A j \in 1..Len(methods) : j # last.i => methods[j] = prev.methods[j]

\* set_iload has run a second time on an instance of a Bouzidi class
C8_Witness ==
    /\ last.op = "set_iload"
    /\ LastM.cls \in Bouzidi
    /\ IloadCalls(LastM) = 2
    /\ Len(LastM.iload) = 4

\* C10: update changes no entry of f but those of the columns of istore of
\* its instance, and no table of any instance, whatever the number of
\* updates before it.
C10_UpdateFrame ==
    last.op = "update" =>
        /\ LET dest == Dest(LastM)
           IN  \A e \in Entries \ dest : FAt(f, e) = FAt(prev.f, e)
        /\ methods = prev.methods

\* a second update has changed f
C10_Witness ==
    /\ last.op = "update"
    /\ ~raised
    /\ nupd >= 2
    /\ f # prev.f

\* the concatenation of the sequences of a sequence
RECURSIVE Flatten(_)
Flatten(ss) == IF ss = <<>> THEN <<>> ELSE Head(ss) \o Flatten(Tail(ss))

\* the records of the traversal: label, then the items of its method
\* dictionary, then the velocities of the family; a record holds its class
\* and its columns <<istore column, label, distance>>
TraversalRecords ==
    Flatten([li \in 1..Len(domain.labels) |->
        LET label == domain.labels[li]
            items == dico[label].method
        IN  IF label \in {-1, -2} THEN <<>>
            ELSE Flatten([j \in 1..Len(items) |->
                     [n \in 1..Len(NumOf(items[j][1])) |->
                         LET fam == items[j][1]
                             ku == Unum2index(NumOf(fam)[n])
                             out == Unum2index(GetSymmetricVel(UVel(ku)).num)
                             pts == SelectSeq(CellsInOrder,
                                        LAMBDA x : domain.flag[out][x] = label)
                         IN  [cls |-> items[j][2],
                              cols |-> [c \in 1..Len(pts) |->
                                  << <<NvPtr(fam) + n - 1>>
                                         \o VAdd(pts[c], UVel(out).v),
                                     label,
                                     domain.distance[out][pts[c]] >>]]]])])

NonEmptyRecords == SelectSeq(TraversalRecords, LAMBDA r : r.cols # <<>>)

\* the classes of the records recs, in order of first appearance
ClassOrder(recs) ==
    LET first == {p \in 1..Len(recs) :
                     \A q \in 1..(p - 1) : recs[q].cls # recs[p].cls}
        pos == SortedSet(first)
    IN  [p \in 1..Len(pos) |-> recs[pos[p]].cls]

\* the columns of a class: its records among recs, concatenated
ColumnsOf(recs, cls) ==
    LET mine == SelectSeq(recs, LAMBDA r : r.cls = cls)
    IN  Flatten([p \in 1..Len(mine) |-> mine[p].cols])

\* C9: Boundary(domain, dico) gives one instance for each class, in order
\* of first appearance; the columns of an instance are the records that
\* are not empty, concatenated in the order of the traversal (label, item
\* of the method dictionary, velocity of the family), istore, ilabel and
\* distance being aligned; the labels -1 and -2 give no column; building
\* it again gives the same list.
C9_CompileOrder ==
    ncompile >= 1 =>
        LET recs == NonEmptyRecords
            order == ClassOrder(recs)
        IN
        /\ Len(methods) = Len(order)
        /\ \A p \in 1..Len(methods) :
              LET cols == ColumnsOf(recs, order[p])
              IN  /\ methods[p].cls = order[p]
                  /\ methods[p].istore = [c \in 1..Len(cols) |-> cols[c][1]]
                  /\ methods[p].ilabel = [c \in 1..Len(cols) |-> cols[c][2]]
                  /\ methods[p].distance = [c \in 1..Len(cols) |-> cols[c][3]]
                  /\ \A c \in 1..Len(cols) : methods[p].ilabel[c] \notin {-1, -2}
        /\ ncompile >= 2 => methods = prev.methods

\* Boundary has been built twice from a domain with the labels -2 and -1:
\* several instances, one of them with columns of two labels, of two
\* families and of several points of one record, and distances that differ
C9_Witness ==
    /\ ncompile = 2
    /\ {-2, -1} \subseteq Range(domain.labels)
    /\ \E x \in Cells : domain.flag[3][x] = -1
    /\ Len(methods) >= 2
    /\ \E p \in 1..Len(methods) :
          LET m == methods[p]
          IN  /\ Cardinality(Range(m.ilabel)) = 2
              /\ Cardinality({FamilyOf(ColK(m.istore[c])) : c \in 1..Len(m.istore)}) = 2
              /\ \E c \in 1..(Len(m.istore) - 1) :
                    /\ ColK(m.istore[c]) = ColK(m.istore[c + 1])
                    /\ m.ilabel[c] = m.ilabel[c + 1]
                    /\ m.distance[c] # m.distance[c + 1]

\* the geometry tables of an instance
Geometry(m) ==
    [istore |-> m.istore, ilabel |-> m.ilabel, distance |-> m.distance,
     iload |-> m.iload]

\* the instance with the forcing of its present values alone: feq is the
\* equilibrium of the value of every label that has one and zero for a
\* label that has none, and rhs is set from this feq
FreshForcing(m) ==
    SetRhsOf(PrepareRhsOf(
        [m EXCEPT !.feq = [c \in 1..Len(m.istore) |-> [k \in Velocities |-> RZero]],
                  !.rhs = Fill(Len(m.istore), RZero)]).m)

\* the last operation was an update of an instance whose forcing has been
\* recomputed (prepare_rhs, then set_rhs) since its values last changed
UpdatedAfterRecompute ==
    /\ last.op = "update"
    /\ ~raised
    /\ Ready(last.i)
    /\ ran[last.i].prepare >= 2

\* C11: prepare_rhs and set_rhs, run again after the prescribed values
\* have changed, leave istore, ilabel, distance and iload as they were, and
\* an update that follows the recomputation gives f the values of the
\* class's rule with the equilibrium of the values of that recomputation,
\* with nothing of the values of an earlier one.
C11_RecomputeForcing ==
    /\ last.op \in {"prepare_rhs", "set_rhs"} =>
           Geometry(LastM) = Geometry(prev.methods[last.i])
    /\ UpdatedAfterRecompute =>
           f = UpdateField(FreshForcing(LastM), prev.f)

=============================================================================
